---------------------------- MODULE Spec2Model ----------------------------
(***************************************************************************)
(* Model of bugwarrior's Jira service (bugwarrior/services/jira.py):       *)
(* the field mappers of JiraIssue, the record assembly of                  *)
(* JiraIssue.to_taskwarrior and the lazy iteration of JiraService.issues.  *)
(*                                                                         *)
(* Python values are tagged records [t |-> type, v |-> content].  A str is *)
(* a sequence of one-character strings, because the code slices, splits    *)
(* and concatenates them; a dict is a function from its keys (TLA+         *)
(* strings, the code only ever looks them up by literal) to values; a     *)
(* list is a sequence of values.  The outcome of evaluating a Python       *)
(* expression is [exc |-> name, val |-> value]: exc = "" when it returns   *)
(* val, otherwise the name of the exception that propagates.               *)
(***************************************************************************)
EXTENDS Integers, Sequences, FiniteSets, TLC

VARIABLES
    python,     \* major version of the interpreter running the module (2 or 3)
    record,     \* JiraIssue.record: the raw payload of one issue
    origin,     \* JiraIssue.origin: the per-account configuration
    extra,      \* JiraIssue.extra: metadata attached by the adapter
    called,     \* the JiraIssue method applied last ("" before any call)
    ret,        \* the outcome of that call
    config,     \* JiraService: the configured jira.version, or NoneV
    remote,     \* the issues the remote search matches, in result order
    pc,         \* position of the JiraService.issues generator
    cases,      \* JiraService.issues: the local `cases`
    jira_version, \* JiraService.issues: the local `jira_version`
    idx,        \* JiraService.issues: index of the current `case` in cases
    searches,   \* number of jira.search_issues calls issued
    fetched,    \* keys passed to jira.comments, in call order
    requested,  \* number of next() calls made by the consumer
    yielded     \* the issues yielded so far

vars == <<python, record, origin, extra, called, ret, config, remote, pc,
          cases, jira_version, idx, searches, fetched, requested, yielded>>

issueVars == <<python, record, origin, extra, called, ret>>
iterVars == <<config, remote, pc, cases, jira_version, idx, searches,
              fetched, requested, yielded>>

-----------------------------------------------------------------------------
(* Python values *)

NoneV == [t |-> "null", v |-> <<>>]
StrV(s) == [t |-> "str", v |-> s]
IntV(n) == [t |-> "int", v |-> n]
BoolV(b) == [t |-> "bool", v |-> b]
ListV(q) == [t |-> "list", v |-> q]
DictV(f) == [t |-> "map", v |-> f]
\* a float, kept exact as the fraction num/den in lowest terms
FloatV(n, d) == [t |-> "float", v |-> <<n, d>>]
EmptyDict == DictV(<<>>)

Ret(v) == [exc |-> "", val |-> v]
Raise(e) == [exc |-> e, val |-> NoneV]

\* r, then F applied to its value; an exception in r propagates
Then(r, F(_)) == IF r.exc # "" THEN r ELSE F(r.val)

\* try: r  except (excs): return v
Except(r, excs, v) == IF r.exc \in excs THEN Ret(v) ELSE r

\* x[key] for a str key
Item(x, key) ==
    CASE x.t = "map" -> IF key \in DOMAIN x.v THEN Ret(x.v[key])
                        ELSE Raise("KeyError")
      [] OTHER -> Raise("TypeError")

\* x[i] for an int i >= 0
Index(x, i) ==
    CASE x.t = "list" -> IF i + 1 \in DOMAIN x.v THEN Ret(x.v[i + 1])
                         ELSE Raise("IndexError")
      [] x.t = "str" -> IF i + 1 \in DOMAIN x.v THEN Ret(StrV(<<x.v[i + 1]>>))
                        ELSE Raise("IndexError")
      [] x.t = "map" -> Raise("KeyError")
      [] OTHER -> Raise("TypeError")

\* x.get(key, default): only a dict has the method
Get(x, key, default) ==
    IF x.t = "map"
    THEN Ret(IF key \in DOMAIN x.v THEN x.v[key] ELSE default)
    ELSE Raise("AttributeError")

Digit == <<"0", "1", "2", "3", "4", "5", "6", "7", "8", "9">>
IsDigit(c) == \E i \in DOMAIN Digit : Digit[i] = c
DigitVal(c) == (CHOOSE i \in DOMAIN Digit : Digit[i] = c) - 1

\* the decimal digits of a natural number
RECURSIVE Dec(_)
Dec(n) == IF n < 10 THEN <<Digit[n + 1]>>
          ELSE Dec(n \div 10) \o <<Digit[(n % 10) + 1]>>

\* the value of a sequence of decimal digits
RECURSIVE Val(_)
Val(s) == IF s = <<>> THEN 0
          ELSE 10 * Val(SubSeq(s, 1, Len(s) - 1)) + DigitVal(s[Len(s)])

\* str(x), for the types a priority takes in the payloads modelled
StrOf(x) ==
    CASE x.t = "null" -> StrV(<<"N", "o", "n", "e">>)
      [] x.t = "str" -> x
      [] x.t = "int" -> StrV(IF x.v < 0 THEN <<"-">> \o Dec(-x.v) ELSE Dec(x.v))

\* lists and dicts are unhashable: using one as a dict key is a TypeError
Hashable(x) == x.t \notin {"list", "map"}

-----------------------------------------------------------------------------
(* JiraIssue: class attributes *)

SUMMARY == "jirasummary"
URL == "jiraurl"
FOREIGN_ID == "jiraid"
DESCRIPTION == "jiradescription"
ESTIMATE == "jiraestimate"
FIX_VERSION == "jirafixversion"
CREATED_AT == "jiracreatedts"

\* the keys of JiraIssue.UDAS
UDAS == {SUMMARY, URL, DESCRIPTION, FOREIGN_ID, ESTIMATE, FIX_VERSION,
         CREATED_AT}

UNIQUE_KEY == <<URL>>

H == StrV(<<"H">>)
M == StrV(<<"M">>)
L == StrV(<<"L">>)

PRIORITY_MAP ==
    (<<"H", "i", "g", "h", "e", "s", "t">> :> H)
    @@ (<<"H", "i", "g", "h">> :> H)
    @@ (<<"M", "e", "d", "i", "u", "m">> :> M)
    @@ (<<"L", "o", "w">> :> L)
    @@ (<<"L", "o", "w", "e", "s", "t">> :> L)
    @@ (<<"T", "r", "i", "v", "i", "a", "l">> :> L)
    @@ (<<"M", "i", "n", "o", "r">> :> L)
    @@ (<<"M", "a", "j", "o", "r">> :> M)
    @@ (<<"C", "r", "i", "t", "i", "c", "a", "l">> :> H)
    @@ (<<"B", "l", "o", "c", "k", "e", "r">> :> H)

-----------------------------------------------------------------------------
(* datetime.strptime(s, '%Y-%m-%dT%H:%M:%S.%f') and                        *)
(* timestamp.strftime('%Y%m%dT%H%M%S')                                     *)

\* the number of consecutive digits of s from position p on
RECURSIVE Run(_, _)
Run(s, p) == IF p > Len(s) \/ ~IsDigit(s[p]) THEN 0 ELSE 1 + Run(s, p + 1)

Num(s, p, w) == Val(SubSeq(s, p, p + w - 1))
Lit(s, p, c) == p <= Len(s) /\ s[p] = c

IsLeap(y) == (y % 4 = 0 /\ y % 100 # 0) \/ y % 400 = 0
DaysIn(y, m) == IF m = 2 THEN (IF IsLeap(y) THEN 29 ELSE 28)
                ELSE IF m \in {4, 6, 9, 11} THEN 30 ELSE 31

\* %Y is four digits, %m %d %H %M %S one or two, %f one to six; the whole
\* of s must match, and the fields must make a date and a time of day
Strptime(s) ==
    LET pMo == 6
        wMo == Run(s, pMo)
        pD == pMo + wMo + 1
        wD == Run(s, pD)
        pH == pD + wD + 1
        wH == Run(s, pH)
        pMi == pH + wH + 1
        wMi == Run(s, pMi)
        pS == pMi + wMi + 1
        wS == Run(s, pS)
        pF == pS + wS + 1
        wF == Run(s, pF)
        shape == /\ Run(s, 1) = 4 /\ Lit(s, 5, "-")
                 /\ wMo \in 1..2 /\ Lit(s, pMo + wMo, "-")
                 /\ wD \in 1..2 /\ Lit(s, pD + wD, "T")
                 /\ wH \in 1..2 /\ Lit(s, pH + wH, ":")
                 /\ wMi \in 1..2 /\ Lit(s, pMi + wMi, ":")
                 /\ wS \in 1..2 /\ Lit(s, pS + wS, ".")
                 /\ wF \in 1..6 /\ pF + wF - 1 = Len(s)
        dt == [year |-> Num(s, 1, 4), month |-> Num(s, pMo, wMo),
               day |-> Num(s, pD, wD), hour |-> Num(s, pH, wH),
               minute |-> Num(s, pMi, wMi), second |-> Num(s, pS, wS)]
    IN  IF /\ shape
           /\ dt.year >= 1
           /\ dt.month \in 1..12
           /\ dt.day \in 1..DaysIn(dt.year, dt.month)
           /\ dt.hour \in 0..23
           /\ dt.minute \in 0..59
           /\ dt.second \in 0..59
        THEN Ret([t |-> "datetime", v |-> dt])
        ELSE Raise("ValueError")

Pad2(n) == IF n < 10 THEN <<"0">> \o Dec(n) ELSE Dec(n)

\* Python 2 refuses years before 1900
Strftime(dt, py) ==
    IF py = 2 /\ dt.year < 1900 THEN Raise("ValueError")
    ELSE Ret(StrV(Dec(dt.year) \o Pad2(dt.month) \o Pad2(dt.day) \o <<"T">>
                  \o Pad2(dt.hour) \o Pad2(dt.minute) \o Pad2(dt.second)))

\* s[:-n] and s[-n:] of a str
DropLast(s, n) == SubSeq(s, 1, Len(s) - n)
Last(s, n) == SubSeq(s, IF Len(s) > n THEN Len(s) - n + 1 ELSE 1, Len(s))

\* a + b
Add(a, b) == IF a.t = "str" /\ b.t = "str" THEN Ret(StrV(a.v \o b.v))
             ELSE Raise("TypeError")

-----------------------------------------------------------------------------
(* JiraIssue: the field mappers.  rec, org and ext are self.record,        *)
(* self.origin and self.extra.                                             *)

\* get_entry, had it labelled every timestamp as UTC
get_entry_utc(rec, py) ==
    Then(Then(Item(rec, "fields"), LAMBDA f : Item(f, "created")),
         LAMBDA created_at :
           IF created_at.t # "str" THEN Raise("TypeError")
           ELSE Then(Strptime(DropLast(created_at.v, 5)),
                     LAMBDA ts : Then(Strftime(ts.v, py),
                                      LAMBDA out : Add(out, StrV(<<"+", "0", "0", "0", "0">>)))))

get_entry(rec, py) ==
    Then(Then(Item(rec, "fields"), LAMBDA f : Item(f, "created")),
         LAMBDA created_at :
           IF created_at.t # "str" THEN Raise("TypeError")
           ELSE LET timestamp == DropLast(created_at.v, 5)
                    timezone == Last(created_at.v, 5)
                IN  Then(Strptime(timestamp),
                         LAMBDA ts : Then(Strftime(ts.v, py),
                                          LAMBDA out : Add(out, StrV(timezone)))))

\* a parsed jinja2 template: literal text and {{ name }} substitutions
Text(s) == [lit |-> s, var |-> ""]
Subst(name) == [lit |-> <<>>, var |-> name]
Template(segments) == [t |-> "template", v |-> segments]

\* label_template.render(context): a name the context lacks renders empty
RECURSIVE render(_, _)
render(segments, context) ==
    IF segments = <<>> THEN <<>>
    ELSE LET seg == Head(segments)
             piece == IF seg.var = "" THEN seg.lit
                      ELSE IF seg.var \in DOMAIN context
                           THEN StrOf(context[seg.var]).v
                           ELSE <<>>
         IN  piece \o render(Tail(segments), context)

\* not x
Falsy(x) == CASE x.t = "bool" -> ~x.v
              [] x.t = "null" -> TRUE
              [] x.t = "int" -> x.v = 0

\* the items `for label in labels` visits
Iterate(labels) ==
    CASE labels.t = "list" -> Ret(labels.v)
      [] labels.t = "str" -> Ret([i \in DOMAIN labels.v |-> StrV(<<labels.v[i]>>)])
      [] labels.t \in {"null", "int", "bool", "float"} -> Raise("TypeError")

\* the loop of get_tags: one rendering of the template per label
render_labels(rec, org) ==
    Then(Item(org, "label_template"),
         LAMBDA label_template :
           Then(Then(Then(Get(rec, "fields", EmptyDict),
                          LAMBDA f : Get(f, "labels", ListV(<<>>))),
                     Iterate),
                LAMBDA labels :
                  Ret(ListV([i \in DOMAIN labels |->
                      StrV(render(label_template.v,
                                  [k \in DOMAIN rec.v \cup {"label"} |->
                                     IF k = "label" THEN labels[i]
                                     ELSE rec.v[k]]))]))))

\* get_tags, had it not looked at import_labels_as_tags
get_tags_unconditional(rec, org) == render_labels(rec, org)

get_tags(rec, org) ==
    Then(Item(org, "import_labels_as_tags"),
         LAMBDA flag : IF Falsy(flag) THEN Ret(ListV(<<>>))
                       ELSE render_labels(rec, org))

get_annotations(ext) == Get(ext, "annotations", ListV(<<>>))

\* the positions of '-' in s
Dashes(s) == {i \in DOMAIN s : s[i] = "-"}
MaxOf(S) == CHOOSE i \in S : \A j \in S : j <= i

\* s.rsplit('-', 1)
rsplit(s) == IF Dashes(s) = {} THEN <<s>>
             ELSE <<SubSeq(s, 1, MaxOf(Dashes(s)) - 1),
                    SubSeq(s, MaxOf(Dashes(s)) + 1, Len(s))>>

get_project(rec) ==
    Then(Item(rec, "key"),
         LAMBDA key : IF key.t # "str" THEN Raise("AttributeError")
                      ELSE Ret(StrV(rsplit(key.v)[1])))

get_number(rec) ==
    Then(Item(rec, "key"),
         LAMBDA key : IF key.t # "str" THEN Raise("AttributeError")
                      ELSE IF Len(rsplit(key.v)) < 2 THEN Raise("IndexError")
                      ELSE Ret(StrV(rsplit(key.v)[2])))

Browse == StrV(<<"/", "b", "r", "o", "w", "s", "e", "/">>)

\* get_url, had it been built from the project instead of the issue key
get_url_project(rec, org) ==
    Then(Then(Item(org, "url"), LAMBDA url : Add(url, Browse)),
         LAMBDA prefix : Then(get_project(rec), LAMBDA project : Add(prefix, project)))

get_url(rec, org) ==
    Then(Then(Item(org, "url"), LAMBDA url : Add(url, Browse)),
         LAMBDA prefix : Then(Item(rec, "key"), LAMBDA key : Add(prefix, key)))

\* self.extra.get('jira_version') == 4
IsVersion4(ext) == Then(Get(ext, "jira_version", NoneV),
                        LAMBDA ver : Ret(BoolV(ver.t = "int" /\ ver.v = 4)))

get_summary(rec, ext) ==
    Then(IsVersion4(ext),
         LAMBDA v4 :
           IF v4.v
           THEN Then(Then(Item(rec, "fields"), LAMBDA f : Item(f, "summary")),
                     LAMBDA summary : Item(summary, "value"))
           ELSE Then(Item(rec, "fields"), LAMBDA f : Item(f, "summary")))

RECURSIVE Gcd(_, _)
Gcd(a, b) == IF b = 0 THEN a ELSE Gcd(b, a % b)

\* x / n for an int n > 0: Python 2 floors the quotient of two ints,
\* Python 3 returns the float
Div(x, n, py) ==
    CASE x.t = "int" ->
           IF py = 2 THEN Ret(IntV(x.v \div n))
           ELSE LET g == Gcd(IF x.v < 0 THEN -x.v ELSE x.v, n)
                IN  Ret(FloatV(x.v \div g, n \div g))
      [] x.t = "float" ->
           LET num == x.v[1]
               den == x.v[2] * n
               g == Gcd(IF num < 0 THEN -num ELSE num, den)
           IN  Ret(FloatV(num \div g, den \div g))
      [] OTHER -> Raise("TypeError")

get_estimate(rec, ext, py) ==
    Then(IsVersion4(ext),
         LAMBDA v4 :
           IF v4.v
           THEN Then(Then(Item(rec, "fields"), LAMBDA f : Item(f, "timeestimate")),
                     LAMBDA estimate : Item(estimate, "value"))
           ELSE Except(Then(Then(Then(Item(rec, "fields"),
                                      LAMBDA f : Item(f, "timeestimate")),
                                 LAMBDA secs : Div(secs, 60, py)),
                            LAMBDA mins : Div(mins, 60, py)),
                       {"TypeError", "KeyError"}, NoneV))

\* PRIORITY_MAP.get(value, default)
Lookup(value, default) ==
    IF ~Hashable(value) THEN Raise("TypeError")
    ELSE Ret(IF value.t = "str" /\ value.v \in DOMAIN PRIORITY_MAP
             THEN PRIORITY_MAP[value.v] ELSE default)

get_priority(rec, org) ==
    Then(Then(Item(rec, "fields"), LAMBDA f : Get(f, "priority", NoneV)),
         LAMBDA value :
           LET name == Item(value, "name")
               label == IF name.exc = "TypeError" THEN Ret(StrOf(value)) ELSE name
           IN  Then(label,
                    LAMBDA lbl : Then(Item(org, "default_priority"),
                                      LAMBDA default : Lookup(lbl, default))))

\* get_fix_version, had it read the last entry instead of the first
get_fix_version_last(rec) ==
    Except(Then(Then(Then(Item(rec, "fields"),
                          LAMBDA f : Get(f, "fixVersions", ListV(<<EmptyDict>>))),
                     LAMBDA versions :
                       IF versions.t = "list" /\ versions.v # <<>>
                       THEN Ret(versions.v[Len(versions.v)])
                       ELSE Index(versions, 0)),
                LAMBDA first : Get(first, "name", NoneV)),
           {"IndexError", "KeyError", "AttributeError", "TypeError"}, NoneV)

get_fix_version(rec) ==
    Except(Then(Then(Then(Item(rec, "fields"),
                          LAMBDA f : Get(f, "fixVersions", ListV(<<EmptyDict>>))),
                     LAMBDA versions : Index(versions, 0)),
                LAMBDA first : Get(first, "name", NoneV)),
           {"IndexError", "KeyError", "AttributeError", "TypeError"}, NoneV)

get_description(rec) ==
    Then(Get(rec, "fields", EmptyDict), LAMBDA f : Get(f, "description", NoneV))

\* the items of the dict display, in evaluation order
Items(rec, org, ext, py) ==
    << <<"project", get_project(rec)>>,
       <<"priority", get_priority(rec, org)>>,
       <<"annotations", get_annotations(ext)>>,
       <<"tags", get_tags(rec, org)>>,
       <<"entry", get_entry(rec, py)>>,
       <<URL, get_url(rec, org)>>,
       <<FOREIGN_ID, Item(rec, "key")>>,
       <<DESCRIPTION, get_description(rec)>>,
       <<SUMMARY, get_summary(rec, ext)>>,
       <<ESTIMATE, get_estimate(rec, ext, py)>>,
       <<FIX_VERSION, get_fix_version(rec)>> >>

\* the first item that raises aborts the display
to_taskwarrior(rec, org, ext, py) ==
    LET items == Items(rec, org, ext, py)
        failed == {i \in DOMAIN items : items[i][2].exc # ""}
    IN  IF failed # {}
        THEN items[CHOOSE i \in failed : \A j \in failed : i <= j][2]
        ELSE Ret(DictV([k \in {items[i][1] : i \in DOMAIN items} |->
                 items[CHOOSE i \in DOMAIN items : items[i][1] = k][2].val]))

-----------------------------------------------------------------------------
(* The payloads, origins and metadata one issue is normalized under *)

MaxDeviations == 1
MaxLabels == 2

\* a key the payload lacks; a 'fields' container with its fields
Absent == [t |-> "absent"]
Present == [t |-> "present"]

High == <<"H", "i", "g", "h">>
Low == <<"L", "o", "w">>
Medium == <<"M", "e", "d", "i", "u", "m">>
Urgent == <<"U", "r", "g", "e", "n", "t">>
Feature == <<"f", "e", "a", "t", "u", "r", "e">>
Bug == <<"b", "u", "g">>
V10 == <<"1", ".", "0">>
V20 == <<"2", ".", "0">>
FixIt == <<"F", "i", "x", " ", "i", "t">>
Proj1 == <<"P", "R", "O", "J", "-", "1">>
Proj12 == <<"P", "R", "O", "J", "-", "1", "2">>
Ab1 == <<"A", "B", "-", "1">>
Host == <<"h", "t", "t", "p", ":", "/", "/", "j">>
HostPath == <<"h", "t", "t", "p", ":", "/", "/", "j", "/", "j", "i", "r", "a">>

Keys == {StrV(Proj1), StrV(Proj12), StrV(Ab1)}
Urls == {StrV(Host), StrV(HostPath)}

Dates == {<<"2", "0", "1", "6", "-", "0", "6", "-", "0", "7">>,
          <<"2", "0", "1", "6", "-", "0", "2", "-", "2", "9">>}
Times == {<<"1", "4", ":", "1", "5", ":", "0", "0">>,
          <<"2", "3", ":", "5", "9", ":", "5", "9">>}
Fractions == {<<"0", "0", "0">>, <<"1", "2", "3", "4", "5", "6">>}
Offsets == {<<"+", "0", "0", "0", "0">>, <<"-", "0", "5", "0", "0">>}

\* the timestamps Jira sends: date 'T' time '.' fraction offset
Timestamps == {d \o <<"T">> \o c \o <<".">> \o f \o z :
                  d \in Dates, c \in Times, f \in Fractions, z \in Offsets}

\* a timestamp whose fields are not zero-padded: strptime reads it too
Unpadded == <<"2", "0", "1", "6", "-", "6", "-", "7", "T", "1", ":", "2", ":", "3",
              ".", "5", "+", "0", "0", "0", "0">>

\* timestamps get_entry refuses: no such day, no fraction, no separators,
\* too short
OddTimestamps ==
    {Unpadded,
     <<"2", "0", "1", "5", "-", "0", "2", "-", "2", "9", "T", "1", "4", ":",
       "1", "5", ":", "0", "0", ".", "0", "0", "0", "+", "0", "0", "0", "0">>,
     <<"2", "0", "1", "6", "-", "0", "6", "-", "0", "7", "T", "1", "4", ":",
       "1", "5", ":", "0", "0", "+", "0", "0", "0", "0">>,
     <<"2", "0", "1", "6", "0", "6", "0", "7", "T", "1", "4", "1", "5", "0",
       "0", "+", "0", "0", "0", "0">>,
     <<"Z">>}

RECURSIVE SeqsUpTo(_, _)
SeqsUpTo(S, n) ==
    IF n = 0 THEN {<<>>}
    ELSE LET shorter == SeqsUpTo(S, n - 1)
         IN  shorter \cup {Append(q, x) : q \in shorter, x \in S}

Named(s) == DictV([name |-> StrV(s)])

LabelTemplate == Template(<<Subst("label")>>)

Dims == {"fields", "priority", "timeestimate", "created", "labels",
         "fixVersions", "summary", "description", "key", "url",
         "default_priority", "import_labels_as_tags", "label_template",
         "jira_version", "annotations", "python"}

FieldNames == {"priority", "timeestimate", "created", "labels",
               "fixVersions", "summary", "description"}

\* the values each part of the input ranges over
Dom(d) ==
    CASE d = "fields" -> {Present, Absent, NoneV, StrV(FixIt)}
      [] d = "priority" ->
           {Absent, NoneV, StrV(High), StrV(Urgent), Named(Medium), Named(Low),
            Named(Urgent), EmptyDict, DictV([name |-> NoneV]),
            DictV([id |-> StrV(V10)])}
      [] d = "timeestimate" ->
           {Absent, NoneV, IntV(18000), IntV(5400), IntV(0),
            DictV([value |-> IntV(5)]), StrV(V10)}
      [] d = "created" ->
           {Absent, NoneV} \cup {StrV(s) : s \in Timestamps \cup OddTimestamps}
      [] d = "labels" ->
           {Absent, NoneV} \cup {ListV(q) : q \in SeqsUpTo({StrV(Feature), StrV(Bug)}, MaxLabels)}
      [] d = "fixVersions" ->
           {Absent, NoneV, ListV(<<>>), ListV(<<Named(V10)>>),
            ListV(<<Named(V10), Named(V20)>>), ListV(<<Named(V20), Named(V10)>>),
            ListV(<<EmptyDict, Named(V20)>>), ListV(<<StrV(V10)>>),
            ListV(<<NoneV, Named(V20)>>), ListV(<<DictV([name |-> NoneV])>>),
            StrV(V10), StrV(<<>>), EmptyDict, Named(V10), IntV(1)}
      [] d = "summary" ->
           {Absent, NoneV, StrV(FixIt), DictV([value |-> StrV(FixIt)])}
      [] d = "description" -> {Absent, NoneV, StrV(FixIt)}
      [] d = "key" -> Keys
      [] d = "url" -> Urls
      [] d = "default_priority" -> {M, L}
      [] d = "import_labels_as_tags" -> {BoolV(TRUE), BoolV(FALSE)}
      [] d = "label_template" ->
           {LabelTemplate,
            Template(<<Text(<<"j", "_">>), Subst("label")>>),
            Template(<<Subst("key"), Text(<<":">>), Subst("label"), Subst("nil")>>)}
      [] d = "jira_version" -> {Absent, IntV(4), IntV(5)}
      [] d = "annotations" -> {Absent, ListV(<<StrV(FixIt)>>)}
      [] d = "python" -> {IntV(2), IntV(3)}

\* a well-formed issue of the current schema, labels imported as tags
Base5 ==
    [d \in Dims |->
        CASE d = "fields" -> Present
          [] d = "priority" -> Named(Medium)
          [] d = "timeestimate" -> IntV(18000)
          [] d = "created" ->
               StrV(<<"2", "0", "1", "6", "-", "0", "6", "-", "0", "7", "T",
                      "1", "4", ":", "1", "5", ":", "0", "0", ".",
                      "0", "0", "0", "+", "0", "0", "0", "0">>)
          [] d = "labels" -> ListV(<<StrV(Feature), StrV(Bug)>>)
          [] d = "fixVersions" -> ListV(<<Named(V10)>>)
          [] d = "summary" -> StrV(FixIt)
          [] d = "description" -> StrV(FixIt)
          [] d = "key" -> StrV(Proj1)
          [] d = "url" -> StrV(Host)
          [] d = "default_priority" -> M
          [] d = "import_labels_as_tags" -> BoolV(TRUE)
          [] d = "label_template" -> LabelTemplate
          [] d = "jira_version" -> IntV(5)
          [] d = "annotations" -> ListV(<<StrV(FixIt)>>)
          [] d = "python" -> IntV(3)]

\* a well-formed issue of the legacy schema (jira.version = 4: wrapped
\* summary and estimate, no annotations), labels not imported
Base4 ==
    [d \in Dims |->
        CASE d = "fields" -> Present
          [] d = "priority" -> StrV(High)
          [] d = "timeestimate" -> DictV([value |-> IntV(5)])
          [] d = "created" ->
               StrV(<<"2", "0", "1", "6", "-", "0", "2", "-", "2", "9", "T",
                      "2", "3", ":", "5", "9", ":", "5", "9", ".",
                      "1", "2", "3", "4", "5", "6", "-", "0", "5", "0", "0">>)
          [] d = "labels" -> ListV(<<StrV(Bug)>>)
          [] d = "fixVersions" -> ListV(<<Named(V20), Named(V10)>>)
          [] d = "summary" -> DictV([value |-> StrV(FixIt)])
          [] d = "description" -> NoneV
          [] d = "key" -> StrV(Ab1)
          [] d = "url" -> StrV(HostPath)
          [] d = "default_priority" -> L
          [] d = "import_labels_as_tags" -> BoolV(FALSE)
          [] d = "label_template" -> LabelTemplate
          [] d = "jira_version" -> IntV(4)
          [] d = "annotations" -> Absent
          [] d = "python" -> IntV(2)]

Bases == {Base5, Base4}

\* the inputs that differ from one of the Bases in at most n parts
RECURSIVE Inputs(_)
Inputs(n) ==
    IF n = 0 THEN Bases
    ELSE LET fewer == Inputs(n - 1)
         IN  fewer \cup UNION {{[i EXCEPT ![d] = x] : i \in fewer, x \in Dom(d)} :
                                d \in Dims}

\* the issue's payload: record['key'] and record['fields']
MkRecord(i) ==
    DictV([k \in {"key"} \cup (IF i["fields"] = Absent THEN {} ELSE {"fields"}) |->
             IF k = "key" THEN i["key"]
             ELSE IF i["fields"] = Present
                  THEN DictV([f \in {g \in FieldNames : i[g] # Absent} |-> i[f]])
                  ELSE i["fields"]])

\* the origin the service hands to its issues
MkOrigin(i) ==
    DictV([url |-> i["url"],
           default_priority |-> i["default_priority"],
           import_labels_as_tags |-> i["import_labels_as_tags"],
           label_template |-> i["label_template"]])

MkExtra(i) ==
    DictV([k \in {g \in {"jira_version", "annotations"} : i[g] # Absent} |-> i[k]])

-----------------------------------------------------------------------------
(* One issue, and the methods applied to it *)

IterIdle ==
    /\ config = NoneV
    /\ remote = <<>>
    /\ pc = "idle"
    /\ cases = <<>>
    /\ jira_version = 5
    /\ idx = 0
    /\ searches = 0
    /\ fetched = <<>>
    /\ requested = 0
    /\ yielded = <<>>

Init ==
    /\ \E i \in Inputs(MaxDeviations) :
          /\ python = i["python"].v
          /\ record = MkRecord(i)
          /\ origin = MkOrigin(i)
          /\ extra = MkExtra(i)
    /\ called = ""
    /\ ret = Ret(NoneV)
    /\ IterIdle

Call(method, outcome) ==
    /\ called = ""
    /\ called' = method
    /\ ret' = outcome
    /\ UNCHANGED <<python, record, origin, extra>>
    /\ UNCHANGED iterVars

GetPriority == Call("get_priority", get_priority(record, origin))
GetEstimate == Call("get_estimate", get_estimate(record, extra, python))
GetEntry == Call("get_entry", get_entry(record, python))
GetTags == Call("get_tags", get_tags(record, origin))
GetFixVersion == Call("get_fix_version", get_fix_version(record))
GetUrl == Call("get_url", get_url(record, origin))
ToTaskwarrior == Call("to_taskwarrior", to_taskwarrior(record, origin, extra, python))

\* rec with fields.created set to x
WithCreated(rec, x) ==
    DictV([rec.v EXCEPT !["fields"] =
             DictV([k \in DOMAIN rec.v["fields"].v \cup {"created"} |->
                      IF k = "created" THEN x ELSE rec.v["fields"].v[k]])])

\* get_entry applied to the payload that carries its own output as 'created'
Renormalize ==
    /\ called = "get_entry"
    /\ ret.exc = ""
    /\ record' = WithCreated(record, ret.val)
    /\ called' = "renormalize"
    /\ ret' = get_entry(record', python)
    /\ UNCHANGED <<python, origin, extra>>
    /\ UNCHANGED iterVars

Next ==
    \/ GetPriority
    \/ GetEstimate
    \/ GetEntry
    \/ GetTags
    \/ GetFixVersion
    \/ GetUrl
    \/ ToTaskwarrior
    \/ Renormalize

Spec == Init /\ [][Next]_vars

-----------------------------------------------------------------------------
(* JiraService.issues: a generator, run by the consumer's next() calls.    *)
(* pc is "created" before the first next(), "suspended" at the yield,      *)
(* "done" once the loop is exhausted and "closed" once the consumer has    *)
(* dropped the generator; any other value is the statement being run.      *)

MaxIssues == 2

Alice == <<"a", "l", "i", "c", "e">>
LooksGood == <<"l", "o", "o", "k", "s", " ", "g", "o", "o", "d">>

\* what jira.comments returns for an issue: (author.name, body) pairs
CommentLists == {<<>>, << <<Alice, LooksGood>> >>}

\* the i-th issue the search matches
RemoteIssue(i, comments) ==
    [raw |-> DictV([key |-> StrV(<<"P", "R", "O", "J", "-">> \o Dec(i)),
                    fields |-> MkRecord(Base5).v["fields"]]),
     comments |-> comments]

Remotes == {[i \in DOMAIN q |-> RemoteIssue(i, q[i])] :
               q \in SeqsUpTo(CommentLists, MaxIssues)}

\* IssueService.build_annotations: "@<author> - <body>" per comment
build_annotations(comments) ==
    ListV([i \in DOMAIN comments |->
             StrV(<<"@">> \o comments[i][1] \o <<" ", "-", " ">> \o comments[i][2])])

\* the value JiraService.annotations returns for the comments fetched
annotations(comments) ==
    IF comments = <<>> THEN ListV(<<>>) ELSE build_annotations(comments)

\* the test below, had it fetched the comments under every version
NeedsAnnotationsAlways(version) == TRUE

\* if jira_version > 4
NeedsAnnotations(version) == version > 4

InitIter ==
    /\ python = 3
    /\ record = NoneV
    /\ origin = MkOrigin(Base5)
    /\ extra = NoneV
    /\ called = ""
    /\ ret = Ret(NoneV)
    /\ config \in {NoneV, IntV(3), IntV(4), IntV(5), IntV(6)}
    /\ remote \in Remotes
    /\ pc = "created"
    /\ cases = <<>>
    /\ jira_version = 5
    /\ idx = 0
    /\ searches = 0
    /\ fetched = <<>>
    /\ requested = 0
    /\ yielded = <<>>

\* the consumer asks for the next issue
Request ==
    /\ pc \in {"created", "suspended"}
    /\ requested' = requested + 1
    /\ pc' = IF pc = "created" THEN "search" ELSE "for"
    /\ UNCHANGED <<config, remote, cases, jira_version, idx, searches, fetched,
                   yielded>>
    /\ UNCHANGED issueVars

\* the consumer stops iterating
Stop ==
    /\ pc \in {"created", "suspended"}
    /\ pc' = "closed"
    /\ UNCHANGED <<config, remote, cases, jira_version, idx, searches, fetched,
                   requested, yielded>>
    /\ UNCHANGED issueVars

\* cases = self.jira.search_issues(self.query, maxResults=-1)
Search ==
    /\ pc = "search"
    /\ searches' = searches + 1
    /\ cases' = remote
    /\ pc' = "version"
    /\ UNCHANGED <<config, remote, jira_version, idx, fetched, requested, yielded>>
    /\ UNCHANGED issueVars

\* jira_version = 5, unless the target configures jira.version
ReadVersion ==
    /\ pc = "version"
    /\ jira_version' = IF config = NoneV THEN 5 ELSE config.v
    /\ idx' = 0
    /\ pc' = "for"
    /\ UNCHANGED <<config, remote, cases, searches, fetched, requested, yielded>>
    /\ UNCHANGED issueVars

\* for case in cases: issue = self.get_issue_for_record(case.raw)
NextCase ==
    /\ pc = "for"
    /\ idx < Len(cases)
    /\ idx' = idx + 1
    /\ record' = cases[idx + 1].raw
    /\ extra' = EmptyDict
    /\ pc' = "extra"
    /\ UNCHANGED <<config, remote, cases, jira_version, searches, fetched,
                   requested, yielded>>
    /\ UNCHANGED <<python, origin, called, ret>>

\* the loop is exhausted: the generator returns
Exhausted ==
    /\ pc = "for"
    /\ idx >= Len(cases)
    /\ pc' = "done"
    /\ UNCHANGED <<config, remote, cases, jira_version, idx, searches, fetched,
                   requested, yielded>>
    /\ UNCHANGED issueVars

\* jira_version > 4: the comments are fetched, then issue.update_extra(extra)
FetchAnnotations ==
    /\ pc = "extra"
    /\ NeedsAnnotations(jira_version)
    /\ fetched' = Append(fetched, record.v["key"])
    /\ extra' = DictV([jira_version |-> IntV(jira_version),
                       annotations |-> annotations(cases[idx].comments)])
    /\ pc' = "yield"
    /\ UNCHANGED <<config, remote, cases, jira_version, idx, searches,
                   requested, yielded>>
    /\ UNCHANGED <<python, record, origin, called, ret>>

\* jira_version <= 4: issue.update_extra(extra) without annotations
SkipAnnotations ==
    /\ pc = "extra"
    /\ ~NeedsAnnotations(jira_version)
    /\ extra' = DictV([jira_version |-> IntV(jira_version)])
    /\ pc' = "yield"
    /\ UNCHANGED <<config, remote, cases, jira_version, idx, searches, fetched,
                   requested, yielded>>
    /\ UNCHANGED <<python, record, origin, called, ret>>

\* yield issue
Yield ==
    /\ pc = "yield"
    /\ yielded' = Append(yielded, [record |-> record, extra |-> extra])
    /\ pc' = "suspended"
    /\ UNCHANGED <<config, remote, cases, jira_version, idx, searches, fetched,
                   requested>>
    /\ UNCHANGED issueVars

NextIter ==
    \/ Request
    \/ Stop
    \/ Search
    \/ ReadVersion
    \/ NextCase
    \/ Exhausted
    \/ FetchAnnotations
    \/ SkipAnnotations
    \/ Yield

SpecIter == InitIter /\ [][NextIter]_vars

-----------------------------------------------------------------------------
(* Properties of the field mappers and of to_taskwarrior (under Spec) *)

\* record['fields'], and the field f of it, Absent when the payload lacks it
Fields == IF "fields" \in DOMAIN record.v THEN record.v["fields"] ELSE Absent
HasField(f) == Fields.t = "map" /\ f \in DOMAIN Fields.v
Field(f) == IF HasField(f) THEN Fields.v[f] ELSE Absent
IsV4 == "jira_version" \in DOMAIN extra.v /\ extra.v["jira_version"] = IntV(4)
Toggle == origin.v["import_labels_as_tags"].v

\* the label a priority normalizes to: its name when it is a mapping, the
\* string itself when it is one, "None" when it is null or missing
PriorityLabel ==
    LET p == Field("priority")
    IN  IF p.t = "map" THEN (IF "name" \in DOMAIN p.v THEN p.v["name"] ELSE NoneV)
        ELSE IF p.t = "str" THEN p
        ELSE StrV(<<"N", "o", "n", "e">>)

\* C1: get_priority never raises, whatever the shape of the priority, and
\* returns PRIORITY_MAP[label] when the normalized label is in PRIORITY_MAP
\* and origin['default_priority'] otherwise.
C1_PriorityTotal ==
    (called = "get_priority" /\ Fields.t = "map") =>
        ret = Ret(IF PriorityLabel.t = "str" /\ PriorityLabel.v \in DOMAIN PRIORITY_MAP
                  THEN PRIORITY_MAP[PriorityLabel.v]
                  ELSE origin.v["default_priority"])

\* x is the number n / d
IsQuotient(x, n, d) ==
    \/ x.t = "int" /\ x.v * d = n
    \/ x.t = "float" /\ x.v[1] * d = n * x.v[2]

\* C2: get_estimate never raises: under jira_version 4 it returns N for
\* timeestimate {value: N}, under any other version S / 3600 for a number
\* of seconds S, and None for a missing, null or wrongly shaped estimate.
C2_EstimateTotal ==
    called = "get_estimate" =>
        LET e == Field("timeestimate")
        IN  /\ ret.exc = ""
            /\ IF IsV4
               THEN ret.val = (IF e.t = "map" /\ "value" \in DOMAIN e.v
                               THEN e.v["value"] ELSE NoneV)
               ELSE IF e.t = "int" THEN IsQuotient(ret.val, e.v, 3600)
                    ELSE ret.val = NoneV

\* C3: every record to_taskwarrior returns has the same key set, and that
\* key set holds every field of JiraIssue.UDAS.
C3_AllUdasPresent ==
    (called = "to_taskwarrior" /\ ret.exc = "") =>
        /\ DOMAIN ret.val.v =
             DOMAIN to_taskwarrior(MkRecord(Base5), MkOrigin(Base5), MkExtra(Base5), 3).val.v
        /\ UDAS \subseteq DOMAIN ret.val.v

\* C4: a mapper that fails does not abort the record: to_taskwarrior
\* returns a record, and every field whose mapper succeeds holds the value
\* that mapper computes.
C4_MappersIsolated ==
    called = "to_taskwarrior" =>
        LET items == Items(record, origin, extra, python)
        IN  /\ ret.exc = ""
            /\ ret.val.t = "map"
            /\ \A i \in DOMAIN items :
                  /\ items[i][1] \in DOMAIN ret.val.v
                  /\ items[i][2].exc = "" => ret.val.v[items[i][1]] = items[i][2].val

\* C5: get_entry applied to a payload whose created field is get_entry's
\* own output returns that output unchanged.
C5_EntryIdempotent ==
    called = "renormalize" => ret = Ret(Field("created"))

\* the values of the maximal runs of digits of s, in order
RECURSIVE DigitRuns(_, _)
DigitRuns(s, p) ==
    IF p > Len(s) THEN <<>>
    ELSE IF Run(s, p) = 0 THEN DigitRuns(s, p + 1)
    ELSE <<Val(SubSeq(s, p, p + Run(s, p) - 1))>> \o DigitRuns(s, p + Run(s, p))

\* s with its fraction of a second replaced by f
WithFraction(s, f) ==
    LET dot == CHOOSE i \in DOMAIN s : s[i] = "."
    IN  SubSeq(s, 1, dot) \o f \o Last(s, 5)

\* the timestamps of the form date 'T' time '.' fraction offset
JiraTimestamps == {StrV(s) : s \in Timestamps \cup {Unpadded}}

\* C6: for a created timestamp date 'T' time '.' fraction followed by a
\* 5-character offset, get_entry returns YYYYMMDD 'T' HHMMSS followed by the
\* same 5 offset characters, with the year, month, day, hour, minute and
\* second of the input, whatever the fraction of a second.
C6_OffsetPreserved ==
    (called = "get_entry" /\ Field("created") \in JiraTimestamps) =>
        LET created == Field("created").v
            in == DigitRuns(DropLast(created, 5), 1)
            out == ret.val.v
        IN  /\ ret.exc = ""
            /\ ret.val.t = "str"
            /\ Len(out) = 20
            /\ SubSeq(out, 16, 20) = SubSeq(created, Len(created) - 4, Len(created))
            /\ out[9] = "T"
            /\ \A i \in (1..15) \ {9} : IsDigit(out[i])
            /\ Val(SubSeq(out, 1, 4)) = in[1]
            /\ Val(SubSeq(out, 5, 6)) = in[2]
            /\ Val(SubSeq(out, 7, 8)) = in[3]
            /\ Val(SubSeq(out, 10, 11)) = in[4]
            /\ Val(SubSeq(out, 12, 13)) = in[5]
            /\ Val(SubSeq(out, 14, 15)) = in[6]
            /\ \A f \in Fractions \cup {<<"9">>} :
                  get_entry(WithCreated(record, StrV(WithFraction(created, f))), python) = ret

C6_Witness ==
    /\ called = "get_entry"
    /\ Field("created") = Base4["created"]
    /\ ret = Ret(StrV(<<"2", "0", "1", "6", "0", "2", "2", "9", "T",
                        "2", "3", "5", "9", "5", "9", "-", "0", "5", "0", "0">>))

\* C7: get_tags returns [] when import_labels_as_tags is false, whatever
\* the labels; when it is true it returns one tag per label, the i-th the
\* template rendered for the i-th label (the labels themselves for
\* '{{label}}'), and [] when the labels are empty or absent.
C7_Tags ==
    called = "get_tags" =>
        IF ~Toggle THEN ret = Ret(ListV(<<>>))
        ELSE /\ (Fields = Absent \/ (Fields.t = "map" /\ ~HasField("labels"))) =>
                    ret = Ret(ListV(<<>>))
             /\ Field("labels").t = "list" =>
                  LET labels == Field("labels").v
                      template == origin.v["label_template"]
                  IN  /\ ret.exc = ""
                      /\ ret.val.t = "list"
                      /\ Len(ret.val.v) = Len(labels)
                      /\ \A i \in DOMAIN labels :
                            ret.val.v[i] =
                              StrV(render(template.v, [key |-> record.v["key"],
                                                       label |-> labels[i]]))
                      /\ template = LabelTemplate => ret.val.v = labels
                      /\ labels = <<>> => ret.val.v = <<>>

C7_Witness ==
    /\ called = "get_tags"
    /\ Toggle
    /\ Field("labels") = ListV(<<StrV(Bug), StrV(Feature)>>)
    /\ origin.v["label_template"] = LabelTemplate
    /\ ret = Ret(ListV(<<StrV(Bug), StrV(Feature)>>))

\* C8: get_fix_version returns the name of the first entry of
\* fields.fixVersions when that is a non-empty list whose first entry is a
\* mapping with a name, and None, without raising, in every other case.
C8_FixVersion ==
    called = "get_fix_version" =>
        LET versions == Field("fixVersions")
        IN  ret = Ret(IF /\ versions.t = "list"
                         /\ versions.v # <<>>
                         /\ versions.v[1].t = "map"
                         /\ "name" \in DOMAIN versions.v[1].v
                      THEN versions.v[1].v["name"]
                      ELSE NoneV)

C8_Witness ==
    /\ called = "get_fix_version"
    /\ Field("fixVersions") = ListV(<<Named(V20), Named(V10)>>)
    /\ ret = Ret(StrV(V20))

\* rec with another issue key
WithKey(rec, key) == DictV([rec.v EXCEPT !["key"] = key])
WithUrl(org, url) == DictV([org.v EXCEPT !["url"] = url])

\* C9: the unique key of a record is origin url + '/browse/' + issue key,
\* and the records of two payloads have the same unique key exactly when
\* they have the same issue key on the same origin.
C9_UniqueKey ==
    (called = "to_taskwarrior" /\ ret.exc = "") =>
        /\ \A i \in DOMAIN UNIQUE_KEY :
              ret.val.v[UNIQUE_KEY[i]] =
                StrV(origin.v["url"].v \o <<"/", "b", "r", "o", "w", "s", "e", "/">>
                     \o record.v["key"].v)
        /\ \A url \in Urls, key \in Keys :
              LET other == to_taskwarrior(WithKey(record, key), WithUrl(origin, url),
                                          extra, python)
              IN  /\ other.exc = ""
                  /\ (\A i \in DOMAIN UNIQUE_KEY :
                         other.val.v[UNIQUE_KEY[i]] = ret.val.v[UNIQUE_KEY[i]])
                     <=> (url = origin.v["url"] /\ key = record.v["key"])

C9_Witness ==
    /\ called = "to_taskwarrior"
    /\ ret.exc = ""
    /\ record.v["key"] = StrV(Proj12)
    /\ ret.val.v[URL] = StrV(Host \o Browse.v \o Proj12)

-----------------------------------------------------------------------------
(* Properties of JiraService.issues (under SpecIter) *)

\* the version the iteration runs under
EffectiveVersion == IF config = NoneV THEN 5 ELSE config.v

\* the generator is not running: control is with the consumer
AtConsumer == pc \in {"created", "suspended", "done", "closed"}

IterInv ==
    /\ searches <= 1
    /\ requested = 0 => searches = 0
    /\ yielded # <<>> => searches = 1
    /\ Len(fetched) <= requested
    /\ Len(yielded) <= requested
    /\ \A j \in DOMAIN fetched :
          j <= Len(remote) /\ fetched[j] = remote[j].raw.v["key"]
    /\ EffectiveVersion > 4 =>
          /\ Len(yielded) <= Len(fetched)
          /\ AtConsumer => Len(fetched) = Len(yielded)
    /\ EffectiveVersion <= 4 => fetched = <<>>
    /\ \A j \in DOMAIN yielded :
          /\ yielded[j].record = remote[j].raw
          /\ yielded[j].extra.v["jira_version"] = IntV(EffectiveVersion)
          /\ EffectiveVersion > 4 =>
                yielded[j].extra.v["annotations"] =
                  ListV(IF remote[j].comments = <<>> THEN <<>>
                        ELSE <<StrV(<<"@">> \o Alice \o <<" ", "-", " ">> \o LooksGood)>>)
          /\ EffectiveVersion <= 4 => "annotations" \notin DOMAIN yielded[j].extra.v

\* a remote call is made only while the generator runs for a request not
\* yet answered; once the consumer has stopped, none is made
IterStep ==
    /\ (searches' # searches \/ fetched' # fetched) =>
          /\ ~AtConsumer
          /\ Len(yielded) < requested
          /\ searches' + Len(fetched') = searches + Len(fetched) + 1
    /\ pc \in {"closed", "done"} => UNCHANGED <<pc, searches, fetched, yielded>>

=============================================================================
